---- MODULE Spec2Model ----
(***************************************************************************)
(* LCWDecompressor.decompress (src/lcw_uncompress.py, lines 20-110) as a   *)
(* state machine.  One step of the model is one pass of the opcode loop    *)
(* (read the opcode, run its handler to completion) or the final return.   *)
(* Indices are 0-based as in the source; sequences are 1-based in TLA+, so  *)
(* the element at source index i is seq[i + 1].                             *)
(***************************************************************************)
EXTENDS Integers, Sequences, FiniteSets, TLC

VARIABLES compressed_data, source_ptr, dest_data, pc, result,
          in_reads, out_reads, dispatches, last

vars == <<compressed_data, source_ptr, dest_data, pc, result,
          in_reads, out_reads, dispatches, last>>

(***************************************************************************)
(* Bounds of the model.                                                    *)
(***************************************************************************)
\* longest input enumerated byte by byte over ByteSample
MaxLen == 5
\* largest number of encoded operations concatenated into one input
MaxOps == 3
\* largest 16-bit count (long run, long back-copy) the inputs may carry
MaxCount == 5

\* the same two bounds for the inputs of the fair specification
MaxLenFair == 4
MaxOpsFair == 3

\* byte values used for the byte-by-byte enumeration: one opcode of every
\* shape, the terminator, and small operand values
ByteSample == {0, 1, 2, 128, 130, 192, 254, 255}

\* encoded operations concatenated into longer inputs (truncated and
\* degenerate operands are covered by the byte-by-byte enumeration)
Tokens ==
  { <<129, 5>>,            \* medium literal, count 1
    <<130, 170, 187>>,     \* medium literal, count 2
    <<132, 1, 2, 3, 4>>,   \* medium literal, count 4
    <<131, 9>>,            \* medium literal, count 3, input may run out
    <<16, 1>>,             \* short back-copy, count 4, offset 1
    <<0, 2>>,              \* short back-copy, count 3, offset 2
    <<0, 0>>,              \* short back-copy, count 3, offset 0
    <<32, 3>>,             \* short back-copy, count 5, offset 3
    <<192, 1, 0>>,         \* medium back-copy, count 3, offset 1
    <<192, 2, 0>>,         \* medium back-copy, count 3, offset 2
    <<254, 5, 0, 127>>,    \* long run, count 5
    <<255, 4, 0, 1, 0>>,   \* long back-copy, count 4, offset 1
    <<255, 2, 0, 0, 0>>,   \* long back-copy, count 2, offset 0
    <<128>> }              \* end of data

\* the encoded operations used under the fair specification: one of each
\* shape
FairTokens ==
  { <<129, 5>>, <<16, 1>>, <<192, 1, 0>>, <<254, 2, 0, 127>>,
    <<255, 2, 0, 0, 0>>, <<255, 5>>, <<16>>, <<128>> }

(***************************************************************************)
(* Python and integer helpers.                                             *)
(***************************************************************************)
\* seq[i] succeeds for -len <= i < len and raises IndexError otherwise
PyIndexOK(seq, i) == -Len(seq) <= i /\ i < Len(seq)

\* value of seq[i] when it succeeds (a negative index counts from the end)
PyIndex(seq, i) == IF i >= 0 THEN seq[i + 1] ELSE seq[Len(seq) + i + 1]

\* bit k of the non-negative integer x
Bit(x, k) == (x \div (2 ^ k)) % 2

RECURSIVE BitOrFrom(_, _, _)
BitOrFrom(a, b, k) ==
  IF k > 15 THEN 0
  ELSE (IF Bit(a, k) = 1 \/ Bit(b, k) = 1 THEN 2 ^ k ELSE 0)
       + BitOrFrom(a, b, k + 1)

\* a | b on integers in 0..65535
BitOr(a, b) == BitOrFrom(a, b, 0)

RECURSIVE BitAndFrom(_, _, _)
BitAndFrom(a, b, k) ==
  IF k > 15 THEN 0
  ELSE (IF Bit(a, k) = 1 /\ Bit(b, k) = 1 THEN 2 ^ k ELSE 0)
       + BitAndFrom(a, b, k + 1)

\* a & b on integers in 0..65535
BitAnd(a, b) == BitAndFrom(a, b, 0)

Max(a, b) == IF a >= b THEN a ELSE b
Min(a, b) == IF a <= b THEN a ELSE b

(***************************************************************************)
(* Opcode classification (the if/else tree of the loop body).              *)
(***************************************************************************)
\* mutant: the end-of-data test is missing, 0x80 is a literal copy of 0 bytes
EndMarker_Never(op_code) == FALSE

\* if op_code == 0x80 (the end-of-data test inside the literal branch)
EndMarker(op_code) == op_code = 128

\* not (op_code & 0x80)
IsShortCopy(op_code) == BitAnd(op_code, 128) = 0

\* op_code & 0x80, not (op_code & 0x40), op_code == 0x80
IsEndOfData(op_code) ==
  BitAnd(op_code, 128) # 0 /\ BitAnd(op_code, 64) = 0
  /\ EndMarker(op_code)

\* op_code & 0x80, not (op_code & 0x40), op_code != 0x80
IsMediumLiteral(op_code) ==
  BitAnd(op_code, 128) # 0 /\ BitAnd(op_code, 64) = 0
  /\ ~EndMarker(op_code)

\* op_code & 0x80, op_code & 0x40, op_code == 0xFE
IsLongRun(op_code) ==
  BitAnd(op_code, 128) # 0 /\ BitAnd(op_code, 64) # 0 /\ op_code = 254

\* op_code & 0x80, op_code & 0x40, op_code == 0xFF
IsLongCopy(op_code) ==
  BitAnd(op_code, 128) # 0 /\ BitAnd(op_code, 64) # 0 /\ op_code # 254
  /\ op_code = 255

\* op_code & 0x80, op_code & 0x40, neither 0xFE nor 0xFF
IsMediumCopy(op_code) ==
  BitAnd(op_code, 128) # 0 /\ BitAnd(op_code, 64) # 0 /\ op_code # 254
  /\ op_code # 255

(***************************************************************************)
(* Operand-presence checks; sp is source_ptr after the opcode was read.    *)
(***************************************************************************)
\* if source_ptr >= len(compressed_data): break
ShortCopyTruncated(data, sp) == sp >= Len(data)

\* mutant: the long run accepts two operand bytes and reads a third
LongRunTruncated_OffByOne(data, sp) == sp + 2 > Len(data)

\* if source_ptr + 2 >= len(compressed_data): break
LongRunTruncated(data, sp) == sp + 2 >= Len(data)

\* if source_ptr + 3 >= len(compressed_data): break
LongCopyTruncated(data, sp) == sp + 3 >= Len(data)

\* mutant: the medium back-copy asks for one operand byte more than it reads
MediumCopyTruncated_OffByOne(data, sp) == sp + 2 >= Len(data)

\* if source_ptr + 1 >= len(compressed_data): break
MediumCopyTruncated(data, sp) == sp + 1 >= Len(data)

(***************************************************************************)
(* Decoded operands.                                                       *)
(***************************************************************************)
\* count = (op_code >> 4) + 3
ShortCopyCount(op_code) == (op_code \div 16) + 3

\* offset = compressed_data[source_ptr] + ((op_code & 0x0F) << 8)
ShortCopyOffset(op_code, operand) == operand + BitAnd(op_code, 15) * 256

\* mutant: the start is not clamped to 0
ShortCopyStart_NoClamp(len, offset) == len - offset

\* mutant: the short back-copy takes its offset as an absolute index
ShortCopyStart_Absolute(len, offset) == offset

\* copy_start = len(dest_data) - offset; if copy_start < 0: copy_start = 0
ShortCopyStart(len, offset) == IF len - offset < 0 THEN 0 ELSE len - offset

\* count = op_code & 0x3F
MediumLiteralCount(op_code) == BitAnd(op_code, 63)

\* count = (op_code & 0x3F) + 3
MediumCopyCount(op_code) == BitAnd(op_code, 63) + 3

\* compressed_data[p] + (compressed_data[p + 1] << 8)
Word(lo, hi) == lo + hi * 256

(***************************************************************************)
(* The copy loops.  A loop state is [dest, sp, ireads, oreads, err]:       *)
(* the output so far, the cursor, the input indices read, the pairs        *)
(* <<index, output length at the read>> of output reads, and whether an    *)
(* index raised.  A raise ends the loop at once.  Each loop is written as   *)
(* its body (...Pass: one pass, then the remaining passes) and the loop     *)
(* itself, which hands the loop state to the body as a value.               *)
(***************************************************************************)
RECURSIVE ShortCopyLoop(_, _, _, _)
\* mutant: the copy reads only bytes that existed before the opcode
ShortCopyPass_Snapshot(st, copy_start, count, i) ==
  [st EXCEPT !.dest =
     @ \o [k \in 1..count |->
             IF copy_start + k - 1 < Len(st.dest)
             THEN st.dest[copy_start + k] ELSE 0],
   !.oreads = {<<copy_start + k, Len(st.dest)>> :
                 k \in {j \in 0..(count - 1) : copy_start + j < Len(st.dest)}}]

\* for i in range(count): dest_data[copy_start + i] if in range, else 0
ShortCopyPass(st, copy_start, count, i) ==
  IF i >= count \/ st.err THEN st
  ELSE IF copy_start + i < Len(st.dest)
  THEN IF PyIndexOK(st.dest, copy_start + i)
       THEN ShortCopyLoop(
              [st EXCEPT !.dest = Append(@, PyIndex(st.dest, copy_start + i)),
                         !.oreads = @ \cup {<<copy_start + i, Len(st.dest)>>}],
              copy_start, count, i + 1)
       ELSE [st EXCEPT !.err = TRUE,
                       !.oreads = @ \cup {<<copy_start + i, Len(st.dest)>>}]
  ELSE ShortCopyLoop([st EXCEPT !.dest = Append(@, 0)],
                     copy_start, count, i + 1)

ShortCopyLoop(st0, copy_start, count, i) ==
  CHOOSE out \in {ShortCopyPass(st, copy_start, count, i) : st \in {st0}} : TRUE

RECURSIVE MediumLiteralLoop(_, _, _, _)
\* mutant: the copy ends when the input runs out, nothing is padded
MediumLiteralPass_NoPad(st, data, count, i) ==
  IF i >= count \/ st.sp >= Len(data) THEN st
  ELSE MediumLiteralLoop(
         [st EXCEPT !.dest = Append(@, PyIndex(data, st.sp)),
                    !.ireads = @ \cup {st.sp},
                    !.sp = @ + 1],
         data, count, i + 1)

\* mutant: the cursor advances also for the padded positions
MediumLiteralPass_AlwaysAdvance(st, data, count, i) ==
  IF i >= count THEN st
  ELSE IF st.sp < Len(data)
  THEN MediumLiteralLoop(
         [st EXCEPT !.dest = Append(@, PyIndex(data, st.sp)),
                    !.ireads = @ \cup {st.sp},
                    !.sp = @ + 1],
         data, count, i + 1)
  ELSE MediumLiteralLoop([st EXCEPT !.dest = Append(@, 0), !.sp = @ + 1],
                         data, count, i + 1)

\* for i in range(count): next input byte if any is left, else 0
MediumLiteralPass(st, data, count, i) ==
  IF i >= count \/ st.err THEN st
  ELSE IF st.sp < Len(data)
  THEN IF PyIndexOK(data, st.sp)
       THEN MediumLiteralLoop(
              [st EXCEPT !.dest = Append(@, PyIndex(data, st.sp)),
                         !.ireads = @ \cup {st.sp},
                         !.sp = @ + 1],
              data, count, i + 1)
       ELSE [st EXCEPT !.err = TRUE, !.ireads = @ \cup {st.sp}]
  ELSE MediumLiteralLoop([st EXCEPT !.dest = Append(@, 0)],
                         data, count, i + 1)

MediumLiteralLoop(st0, data, count, i) ==
  CHOOSE out \in {MediumLiteralPass(st, data, count, i) : st \in {st0}} : TRUE

RECURSIVE LongRunLoop(_, _, _, _)
\* for i in range(count): dest_data.append(data_byte)
LongRunPass(st, data_byte, count, i) ==
  IF i >= count THEN st
  ELSE LongRunLoop([st EXCEPT !.dest = Append(@, data_byte)],
                   data_byte, count, i + 1)

LongRunLoop(st0, data_byte, count, i) ==
  CHOOSE out \in {LongRunPass(st, data_byte, count, i) : st \in {st0}} : TRUE

RECURSIVE LongCopyLoop(_, _, _, _)
\* for i in range(count): dest_data[offset + i] if in range, else 0
LongCopyPass(st, offset, count, i) ==
  IF i >= count \/ st.err THEN st
  ELSE IF offset + i < Len(st.dest)
  THEN IF PyIndexOK(st.dest, offset + i)
       THEN LongCopyLoop(
              [st EXCEPT !.dest = Append(@, PyIndex(st.dest, offset + i)),
                         !.oreads = @ \cup {<<offset + i, Len(st.dest)>>}],
              offset, count, i + 1)
       ELSE [st EXCEPT !.err = TRUE,
                       !.oreads = @ \cup {<<offset + i, Len(st.dest)>>}]
  ELSE LongCopyLoop([st EXCEPT !.dest = Append(@, 0)], offset, count, i + 1)

LongCopyLoop(st0, offset, count, i) ==
  CHOOSE out \in {LongCopyPass(st, offset, count, i) : st \in {st0}} : TRUE

RECURSIVE MediumCopyLoop(_, _, _, _)
\* for i in range(count): dest_data[offset + i] if in range, else 0
MediumCopyPass(st, offset, count, i) ==
  IF i >= count \/ st.err THEN st
  ELSE IF offset + i < Len(st.dest)
  THEN IF PyIndexOK(st.dest, offset + i)
       THEN MediumCopyLoop(
              [st EXCEPT !.dest = Append(@, PyIndex(st.dest, offset + i)),
                         !.oreads = @ \cup {<<offset + i, Len(st.dest)>>}],
              offset, count, i + 1)
       ELSE [st EXCEPT !.err = TRUE,
                       !.oreads = @ \cup {<<offset + i, Len(st.dest)>>}]
  ELSE MediumCopyLoop([st EXCEPT !.dest = Append(@, 0)], offset, count, i + 1)

MediumCopyLoop(st0, offset, count, i) ==
  CHOOSE out \in {MediumCopyPass(st, offset, count, i) : st \in {st0}} : TRUE

(***************************************************************************)
(* The opcode handlers, from the point where the opcode has been read and  *)
(* its operands are known to be present: sp is source_ptr after the        *)
(* opcode, dest the output before it.  Each yields the loop state after    *)
(* the handler, with the operands it decoded.                              *)
(***************************************************************************)
NewSt(dest, sp) ==
  [dest |-> dest, sp |-> sp, ireads |-> {}, oreads |-> {}, err |-> FALSE,
   count |-> 0, offset |-> 0, start |-> 0]

\* raise IndexError on reading the input at one of idxs
Raised(dest, sp, idxs) ==
  [NewSt(dest, sp) EXCEPT !.ireads = idxs, !.err = TRUE]

\* lines 40-55
ShortCopyExec(data, op_code, sp, dest) ==
  IF ~PyIndexOK(data, sp) THEN Raised(dest, sp, {sp})
  ELSE LET count == ShortCopyCount(op_code)
           offset == ShortCopyOffset(op_code, PyIndex(data, sp))
           copy_start == ShortCopyStart(Len(dest), offset)
       IN ShortCopyLoop(
            [NewSt(dest, sp + 1) EXCEPT !.ireads = {sp}, !.count = count,
                                        !.offset = offset,
                                        !.start = copy_start],
            copy_start, count, 0)

\* lines 64-70
MediumLiteralExec(data, op_code, sp, dest) ==
  LET count == MediumLiteralCount(op_code)
  IN MediumLiteralLoop([NewSt(dest, sp) EXCEPT !.count = count],
                       data, count, 0)

\* lines 76-81
LongRunExec(data, op_code, sp, dest) ==
  IF \E k \in {sp, sp + 1, sp + 2} : ~PyIndexOK(data, k)
  THEN Raised(dest, sp, {sp, sp + 1, sp + 2})
  ELSE LET count == Word(PyIndex(data, sp), PyIndex(data, sp + 1))
           data_byte == PyIndex(data, sp + 2)
       IN LongRunLoop(
            [NewSt(dest, sp + 3) EXCEPT !.ireads = {sp, sp + 1, sp + 2},
                                        !.count = count],
            data_byte, count, 0)

\* lines 87-95
LongCopyExec(data, op_code, sp, dest) ==
  IF \E k \in {sp, sp + 1, sp + 2, sp + 3} : ~PyIndexOK(data, k)
  THEN Raised(dest, sp, {sp, sp + 1, sp + 2, sp + 3})
  ELSE LET count == Word(PyIndex(data, sp), PyIndex(data, sp + 1))
           offset == Word(PyIndex(data, sp + 2), PyIndex(data, sp + 3))
       IN LongCopyLoop(
            [NewSt(dest, sp + 4) EXCEPT
               !.ireads = {sp, sp + 1, sp + 2, sp + 3},
               !.count = count, !.offset = offset, !.start = offset],
            offset, count, 0)

\* mutant: the medium back-copy takes its offset relative to the output end
MediumCopyExec_Relative(data, op_code, sp, dest) ==
  LET count == MediumCopyCount(op_code)
      offset == Word(PyIndex(data, sp), PyIndex(data, sp + 1))
      start == ShortCopyStart(Len(dest), offset)
  IN MediumCopyLoop(
       [NewSt(dest, sp + 2) EXCEPT !.ireads = {sp, sp + 1},
                                   !.count = count, !.offset = offset,
                                   !.start = start],
       start, count, 0)

\* lines 100-108
MediumCopyExec(data, op_code, sp, dest) ==
  IF \E k \in {sp, sp + 1} : ~PyIndexOK(data, k)
  THEN Raised(dest, sp, {sp, sp + 1})
  ELSE LET count == MediumCopyCount(op_code)
           offset == Word(PyIndex(data, sp), PyIndex(data, sp + 1))
       IN MediumCopyLoop(
            [NewSt(dest, sp + 2) EXCEPT !.ireads = {sp, sp + 1},
                                        !.count = count, !.offset = offset,
                                        !.start = offset],
            offset, count, 0)

(***************************************************************************)
(* decompress as a function of its input: the whole loop, run to the       *)
(* return.  NoResult stands for a call that raised instead of returning.   *)
(***************************************************************************)
NoResult == <<-1>>

\* mutant: the loop is entered once more at the end of the input
LoopCond_Inclusive(data, sp) == sp <= Len(data)

\* while source_ptr < len(compressed_data)
LoopCond(data, sp) == sp < Len(data)

RECURSIVE DecodeFrom(_, _, _)
DecodeFrom(data, source_ptr0, dest) ==
  IF ~LoopCond(data, source_ptr0) THEN dest
  ELSE IF ~PyIndexOK(data, source_ptr0) THEN NoResult
  ELSE
    LET op_code == PyIndex(data, source_ptr0)
        sp == source_ptr0 + 1
        Continue(st) == IF st.err THEN NoResult
                        ELSE DecodeFrom(data, st.sp, st.dest)
    IN IF IsShortCopy(op_code)
       THEN IF ShortCopyTruncated(data, sp) THEN dest
            ELSE Continue(ShortCopyExec(data, op_code, sp, dest))
       ELSE IF IsEndOfData(op_code) THEN dest
       ELSE IF IsMediumLiteral(op_code)
       THEN Continue(MediumLiteralExec(data, op_code, sp, dest))
       ELSE IF IsLongRun(op_code)
       THEN IF LongRunTruncated(data, sp) THEN dest
            ELSE Continue(LongRunExec(data, op_code, sp, dest))
       ELSE IF IsLongCopy(op_code)
       THEN IF LongCopyTruncated(data, sp) THEN dest
            ELSE Continue(LongCopyExec(data, op_code, sp, dest))
       ELSE IF MediumCopyTruncated(data, sp) THEN dest
            ELSE Continue(MediumCopyExec(data, op_code, sp, dest))

decompress(data) == DecodeFrom(data, 0, <<>>)

(***************************************************************************)
(* The inputs of the model.                                                *)
(***************************************************************************)
\* every 0xFE / 0xFF byte is followed by a 16-bit value of at most MaxCount,
\* so that no long run or long back-copy has a larger count
CountBounded(s) ==
  \A i \in 1..Len(s) :
    s[i] \in {254, 255} =>
      /\ (i + 1 <= Len(s) => s[i + 1] <= MaxCount)
      /\ (i + 2 <= Len(s) => s[i + 2] = 0)

ByteStrings(maxlen) == UNION {[1..n -> ByteSample] : n \in 0..maxlen}

RECURSIVE Programs(_, _)
Programs(tokens, n) ==
  IF n = 0 THEN {<<>>}
  ELSE LET P == Programs(tokens, n - 1)
       IN P \cup {p \o t : p \in P, t \in tokens}

Inputs ==
  {s \in ByteStrings(MaxLen) \cup Programs(Tokens, MaxOps) : CountBounded(s)}

FairInputs ==
  {s \in ByteStrings(MaxLenFair) \cup Programs(FairTokens, MaxOpsFair) :
     CountBounded(s)}

(***************************************************************************)
(* State machine.                                                          *)
(***************************************************************************)
NoOp ==
  [kind |-> "none", op_code |-> 0, at |-> 0, len |-> 0,
   count |-> 0, offset |-> 0, start |-> 0]

\* LCWDecompressor(): the object holds no state; no call is in progress
Init ==
  /\ compressed_data = <<>>
  /\ source_ptr = 0
  /\ dest_data = <<>>
  /\ pc = "idle"
  /\ result = <<>>
  /\ in_reads = {}
  /\ out_reads = {}
  /\ dispatches = 0
  /\ last = NoOp

\* the loop is entered and op_code = compressed_data[source_ptr] succeeds
Dispatch ==
  /\ pc = "loop"
  /\ LoopCond(compressed_data, source_ptr)
  /\ PyIndexOK(compressed_data, source_ptr)

\* op_code = compressed_data[source_ptr]
op_code == PyIndex(compressed_data, source_ptr)

\* the opcode was read and its handler ran to the end of the loop body
Executed(kind, st) ==
  /\ dest_data' = st.dest
  /\ source_ptr' = st.sp
  /\ pc' = IF st.err THEN "raised" ELSE "loop"
  /\ in_reads' = {source_ptr} \cup st.ireads
  /\ out_reads' = st.oreads
  /\ dispatches' = dispatches + 1
  /\ last' = [kind |-> kind, op_code |-> op_code, at |-> source_ptr,
              len |-> Len(dest_data), count |-> st.count,
              offset |-> st.offset, start |-> st.start]
  /\ UNCHANGED <<compressed_data, result>>

\* the opcode was read and its handler left the loop: break, then
\* return bytes(dest_data)
Broke(kind) ==
  /\ source_ptr' = source_ptr + 1
  /\ pc' = "done"
  /\ result' = dest_data
  /\ in_reads' = {source_ptr}
  /\ out_reads' = {}
  /\ dispatches' = dispatches + 1
  /\ last' = [NoOp EXCEPT !.kind = kind, !.op_code = op_code,
                          !.at = source_ptr, !.len = Len(dest_data)]
  /\ UNCHANGED <<compressed_data, dest_data>>

\* decompress(data) is called: source_ptr = 0 and dest_data = bytearray()
CallWith(data) ==
  /\ compressed_data' = data
  /\ source_ptr' = 0
  /\ dest_data' = <<>>
  /\ pc' = "loop"
  /\ UNCHANGED <<result, in_reads, out_reads, dispatches, last>>

Call == pc = "idle" /\ \E data \in Inputs : CallWith(data)

CallFair == pc = "idle" /\ \E data \in FairInputs : CallWith(data)

ShortCopy ==
  /\ Dispatch /\ IsShortCopy(op_code)
  /\ ~ShortCopyTruncated(compressed_data, source_ptr + 1)
  /\ \E st \in {ShortCopyExec(compressed_data, op_code,
                  source_ptr + 1, dest_data)} :
       Executed("short_copy", st)

ShortCopyBreak ==
  /\ Dispatch /\ IsShortCopy(op_code)
  /\ ShortCopyTruncated(compressed_data, source_ptr + 1)
  /\ Broke("short_copy_break")

EndOfData ==
  /\ Dispatch /\ IsEndOfData(op_code)
  /\ Broke("end_of_data")

MediumLiteral ==
  /\ Dispatch /\ IsMediumLiteral(op_code)
  /\ \E st \in {MediumLiteralExec(compressed_data, op_code,
                  source_ptr + 1, dest_data)} :
       Executed("medium_literal", st)

LongRun ==
  /\ Dispatch /\ IsLongRun(op_code)
  /\ ~LongRunTruncated(compressed_data, source_ptr + 1)
  /\ \E st \in {LongRunExec(compressed_data, op_code,
                  source_ptr + 1, dest_data)} :
       Executed("long_run", st)

LongRunBreak ==
  /\ Dispatch /\ IsLongRun(op_code)
  /\ LongRunTruncated(compressed_data, source_ptr + 1)
  /\ Broke("long_run_break")

LongCopy ==
  /\ Dispatch /\ IsLongCopy(op_code)
  /\ ~LongCopyTruncated(compressed_data, source_ptr + 1)
  /\ \E st \in {LongCopyExec(compressed_data, op_code,
                  source_ptr + 1, dest_data)} :
       Executed("long_copy", st)

LongCopyBreak ==
  /\ Dispatch /\ IsLongCopy(op_code)
  /\ LongCopyTruncated(compressed_data, source_ptr + 1)
  /\ Broke("long_copy_break")

MediumCopy ==
  /\ Dispatch /\ IsMediumCopy(op_code)
  /\ ~MediumCopyTruncated(compressed_data, source_ptr + 1)
  /\ \E st \in {MediumCopyExec(compressed_data, op_code,
                  source_ptr + 1, dest_data)} :
       Executed("medium_copy", st)

MediumCopyBreak ==
  /\ Dispatch /\ IsMediumCopy(op_code)
  /\ MediumCopyTruncated(compressed_data, source_ptr + 1)
  /\ Broke("medium_copy_break")

\* the loop is left without a dispatch: the loop condition fails and
\* bytes(dest_data) is returned, or the opcode read raises IndexError
Return ==
  /\ pc = "loop"
  /\ IF LoopCond(compressed_data, source_ptr)
     THEN /\ ~PyIndexOK(compressed_data, source_ptr)
          /\ pc' = "raised"
          /\ result' = result
     ELSE /\ pc' = "done"
          /\ result' = dest_data
  /\ in_reads' = IF LoopCond(compressed_data, source_ptr)
                 THEN {source_ptr} ELSE {}
  /\ out_reads' = {}
  /\ UNCHANGED <<compressed_data, source_ptr, dest_data, dispatches, last>>

\* the steps of a call in progress
Step ==
  \/ ShortCopy
  \/ ShortCopyBreak
  \/ EndOfData
  \/ MediumLiteral
  \/ LongRun
  \/ LongRunBreak
  \/ LongCopy
  \/ LongCopyBreak
  \/ MediumCopy
  \/ MediumCopyBreak
  \/ Return

Next ==
  \/ Call
  \/ Step

Spec == Init /\ [][Next]_vars

\* the interpreter keeps running a call until it has returned or raised
NextFair ==
  \/ CallFair
  \/ Step

FairSpec == Init /\ [][NextFair]_vars /\ WF_vars(Step)

TypeOK ==
  /\ pc \in {"idle", "loop", "done", "raised"}
  /\ source_ptr \in Nat
  /\ dispatches \in Nat

(***************************************************************************)
(* Shorthands for the properties.                                          *)
(***************************************************************************)
\* bytes of the input after the opcode at the cursor
Remaining == Len(compressed_data) - (source_ptr + 1)

\* operand bytes the opcode needs before its handler runs
Needs(op) ==
  IF op = 254 THEN 3
  ELSE IF op = 255 THEN 4
  ELSE IF op >= 192 /\ op <= 253 THEN 2
  ELSE IF op >= 0 /\ op <= 127 THEN 1
  ELSE 0

\* an opcode is about to be read
AtOpcode == pc = "loop" /\ source_ptr < Len(compressed_data)

\* the bytes the last step appended
Appended == SubSeq(dest_data, last.len + 1, Len(dest_data))

(***************************************************************************)
(* C1.  decompress never faults, whatever the input: every read of the     *)
(* input is at an index i with 0 <= i < len(input), every read of the      *)
(* output is at an index j with 0 <= j < the output length at that moment, *)
(* no step raises, and the call ends by returning the output buffer.       *)
(***************************************************************************)
C1_NeverFaults ==
  /\ pc # "raised"
  /\ \A i \in in_reads : 0 <= i /\ i < Len(compressed_data)
  /\ \A r \in out_reads : 0 <= r[1] /\ r[1] < r[2] /\ r[2] <= Len(dest_data)
  /\ pc = "done" => result = dest_data

\* a long back-copy has read its opcode, its four operands and bytes of the
\* output
C1_Witness ==
  /\ last.kind = "long_copy"
  /\ Cardinality(in_reads) = 5
  /\ Cardinality(out_reads) >= 2
  /\ pc = "loop"

(***************************************************************************)
(* C2.  decompress terminates: every pass of the opcode loop stops the     *)
(* decoding or moves the cursor forward by at least 1, the number of       *)
(* dispatches never exceeds the input length, and the empty input returns  *)
(* the empty output without a dispatch.                                    *)
(***************************************************************************)
C2_Terminates ==
  /\ [][pc = "loop" => pc' = "done" \/ source_ptr' >= source_ptr + 1]_vars
  /\ [](dispatches <= Len(compressed_data))
  /\ [](Len(compressed_data) = 0 /\ pc \notin {"idle", "loop"}
          => pc = "done" /\ dispatches = 0 /\ result = <<>>)
  /\ (pc = "loop" ~> pc = "done")

\* a run of several dispatches has returned
C2_Witness ==
  /\ pc = "done"
  /\ dispatches >= 3
  /\ source_ptr = Len(compressed_data)

(***************************************************************************)
(* C3.  An opcode with fewer operand bytes left than it needs (0xFE: 3,    *)
(* 0xFF: 4, 0xC0..0xFD: 2, 0x00..0x7F: 1) stops the decoding and returns   *)
(* the output as it was before the opcode; with exactly the needed number  *)
(* of operand bytes left (or more) the opcode is executed.                 *)
(***************************************************************************)
C3_TruncatedStops ==
  [][AtOpcode /\ Needs(op_code) > 0 =>
       IF Remaining < Needs(op_code)
       THEN /\ pc' = "done"
            /\ dest_data' = dest_data
            /\ result' = dest_data
       ELSE /\ pc' = "loop"
            /\ source_ptr' = source_ptr + 1 + Needs(op_code)
            /\ last'.kind \in {"short_copy", "long_run", "long_copy",
                               "medium_copy"}
            /\ Len(dest_data') = Len(dest_data) + last'.count]_vars

\* a long back-copy missing some of its operands stopped the decoding after
\* output had been produced
C3_Witness ==
  /\ last.kind = "long_copy_break"
  /\ Len(compressed_data) - (last.at + 1) \in 1..3
  /\ last.len > 0
  /\ pc = "done"
  /\ result = dest_data

(***************************************************************************)
(* C10.  The cursor stays within 0..len(input) and never decreases, also   *)
(* after a medium literal copy that asks for more bytes than are left and  *)
(* after a truncated-operand stop; it never indexes the input beyond its   *)
(* end.                                                                    *)
(***************************************************************************)
C10_CursorInvariant ==
  /\ [](0 <= source_ptr /\ source_ptr <= Len(compressed_data))
  /\ [](\A i \in in_reads : i < Len(compressed_data))
  /\ [][source_ptr' >= source_ptr]_vars

\* a medium literal copy ran out of input: the cursor stopped at the end
C10_Witness ==
  /\ last.kind = "medium_literal"
  /\ last.count > Len(compressed_data) - (last.at + 1)
  /\ Len(compressed_data) - (last.at + 1) > 0
  /\ source_ptr = Len(compressed_data)

(***************************************************************************)
(* C4.  A 0x80 read in opcode position stops the decoding at once: no      *)
(* further input byte is read, nothing is appended, and the result is the  *)
(* output of the opcodes before it.  So the result for p ++ [0x80] ++ s is *)
(* the result for p ++ [0x80] (and for p), and [0x80] decodes to the empty *)
(* output.                                                                 *)
(***************************************************************************)
C4_TerminatorStops ==
  /\ [][AtOpcode /\ op_code = 128 =>
          /\ pc' = "done"
          /\ dest_data' = dest_data
          /\ result' = dest_data
          /\ in_reads' = {source_ptr}
          /\ out_reads' = {}
          /\ result' = decompress(SubSeq(compressed_data, 1, source_ptr + 1))
          /\ result' = decompress(SubSeq(compressed_data, 1, source_ptr))
          /\ result' = decompress(compressed_data)]_vars
  /\ [][pc # "done"]_vars
  /\ [](compressed_data = <<128>> /\ pc = "done" => result = <<>>)

\* a terminator was read after output had been produced and with input
\* bytes still behind it
C4_Witness ==
  /\ last.kind = "end_of_data"
  /\ pc = "done"
  /\ Len(result) > 0
  /\ source_ptr < Len(compressed_data)

(***************************************************************************)
(* C5.  A medium literal copy (0x81..0xBF, count = opcode & 0x3F) appends  *)
(* exactly count bytes: the next min(count, remaining) input bytes in      *)
(* order, then zero bytes; the next opcode is read right after the last    *)
(* literal byte consumed.  [0x82, 0xAA, 0xBB] decodes to [0xAA, 0xBB].     *)
(***************************************************************************)
C5_MediumLiteral ==
  /\ [][AtOpcode /\ op_code >= 129 /\ op_code <= 191 =>
          LET count == BitAnd(op_code, 63)
              n == Min(count, Remaining)
          IN /\ dest_data' =
                  dest_data \o
                  [i \in 1..count |->
                     IF i <= n THEN compressed_data[source_ptr + 1 + i]
                     ELSE 0]
             /\ source_ptr' = source_ptr + 1 + n
             /\ pc' = "loop"]_vars
  /\ [](compressed_data = <<130, 170, 187>> /\ pc = "done"
          => result = <<170, 187>>)

\* a medium literal copy took the bytes that were left and padded the rest
C5_Witness ==
  /\ last.kind = "medium_literal"
  /\ Len(Appended) = last.count
  /\ \E i \in 1..Len(Appended) : Appended[i] # 0
  /\ source_ptr - (last.at + 1) \in 1..(last.count - 1)

(***************************************************************************)
(* C6.  A short back-copy (0x00..0x7F, operand present) is relative:       *)
(* count = (opcode >> 4) + 3, offset = operand | ((opcode & 0x0F) << 8),   *)
(* start = max(0, L - offset) with L the output length before the opcode.  *)
(* It appends exactly count bytes, the i-th being the output byte at index *)
(* start + i if that index is below the output length when byte i is       *)
(* appended, else 0; decoding continues with the next opcode.              *)
(***************************************************************************)
C6_ShortCopy ==
  [][AtOpcode /\ op_code <= 127 /\ Remaining >= 1 =>
       LET count == (op_code \div 16) + 3
           offset == BitOr(compressed_data[source_ptr + 2],
                           BitAnd(op_code, 15) * 256)
           L == Len(dest_data)
           start == Max(0, L - offset)
       IN /\ Len(dest_data') = L + count
          /\ SubSeq(dest_data', 1, L) = dest_data
          /\ \A i \in 0..(count - 1) :
               dest_data'[L + i + 1] =
                 IF start + i < L + i THEN dest_data'[start + i + 1] ELSE 0
          /\ pc' = "loop"
          /\ source_ptr' = source_ptr + 2]_vars

\* a short back-copy whose offset exceeds the output length copied from
\* index 0
C6_Witness ==
  /\ last.kind = "short_copy"
  /\ last.offset > last.len
  /\ last.len > 0
  /\ \E i \in 1..Len(Appended) : Appended[i] # 0

(***************************************************************************)
(* C7.  Medium back-copy (0xC0..0xFD, count = (opcode & 0x3F) + 3, 16-bit  *)
(* little-endian offset) and long back-copy (0xFF, 16-bit little-endian    *)
(* count, then offset) take offset as an absolute output index: they       *)
(* append exactly count bytes, the i-th being output[offset + i] if that   *)
(* index is below the output length when byte i is appended, else 0, and   *)
(* decoding continues with the next opcode.                                *)
(***************************************************************************)
C7_AbsoluteCopy ==
  [][AtOpcode /\ ((op_code >= 192 /\ op_code <= 253 /\ Remaining >= 2)
                  \/ (op_code = 255 /\ Remaining >= 4)) =>
       LET long == op_code = 255
           count == IF long
                    THEN compressed_data[source_ptr + 2]
                         + 256 * compressed_data[source_ptr + 3]
                    ELSE BitAnd(op_code, 63) + 3
           offset == IF long
                     THEN compressed_data[source_ptr + 4]
                          + 256 * compressed_data[source_ptr + 5]
                     ELSE compressed_data[source_ptr + 2]
                          + 256 * compressed_data[source_ptr + 3]
           L == Len(dest_data)
       IN /\ Len(dest_data') = L + count
          /\ SubSeq(dest_data', 1, L) = dest_data
          /\ \A i \in 0..(count - 1) :
               dest_data'[L + i + 1] =
                 IF offset + i < L + i THEN dest_data'[offset + i + 1] ELSE 0
          /\ pc' = "loop"
          /\ source_ptr' = source_ptr + (IF long THEN 5 ELSE 3)]_vars

\* a medium back-copy read from an absolute index that is not the relative
\* one
C7_Witness ==
  /\ last.kind = "medium_copy"
  /\ last.offset < last.len
  /\ last.len # 2 * last.offset
  /\ Appended # SubSeq(dest_data, last.len - last.offset + 1,
                       last.len - last.offset + last.count)

(***************************************************************************)
(* C8.  A short back-copy with 1 <= offset <= L reads the growing output:  *)
(* its i-th appended byte is old_output[L - offset + (i mod offset)], the  *)
(* last offset bytes repeated, also when count > offset.                   *)
(* [0x81, 0x05, 0x10, 0x01] decodes to five bytes 0x05.                    *)
(***************************************************************************)
C8_SelfOverlap ==
  /\ [][AtOpcode /\ op_code <= 127 /\ Remaining >= 1 =>
          LET count == (op_code \div 16) + 3
              offset == BitOr(compressed_data[source_ptr + 2],
                              BitAnd(op_code, 15) * 256)
              L == Len(dest_data)
          IN 1 <= offset /\ offset <= L =>
               /\ Len(dest_data') = L + count
               /\ \A i \in 0..(count - 1) :
                    dest_data'[L + i + 1] =
                      dest_data[L - offset + (i % offset) + 1]]_vars
  /\ [](compressed_data = <<129, 5, 16, 1>> /\ pc = "done"
          => result = <<5, 5, 5, 5, 5>>)

\* a short back-copy longer than its offset repeated non-zero bytes
C8_Witness ==
  /\ last.kind = "short_copy"
  /\ 1 <= last.offset
  /\ last.offset <= last.len
  /\ last.count > last.offset
  /\ \A i \in 1..Len(Appended) : Appended[i] # 0

(***************************************************************************)
(* C9.  Relative against absolute offsets, on the same output of length L  *)
(* with the same offset value and count.                                   *)
(***************************************************************************)
\* the output before the last step
Old == SubSeq(dest_data, 1, last.len)

\* what a short (relative) back-copy appends to old
RelAppend(old, offset, count) ==
  SubSeq(ShortCopyLoop(NewSt(old, 0), ShortCopyStart(Len(old), offset),
                       count, 0).dest,
         Len(old) + 1, Len(old) + count)

\* what a medium or long (absolute) back-copy appends to old
AbsAppend(old, offset, count) ==
  SubSeq(MediumCopyLoop(NewSt(old, 0), offset, count, 0).dest,
         Len(old) + 1, Len(old) + count)

DistinctNonZero(seq) ==
  /\ \A i \in 1..Len(seq) : seq[i] # 0
  /\ \A i, j \in 1..Len(seq) : i # j => seq[i] # seq[j]

\* C9 as claimed: the two families append different bytes whenever
\* L # 2 * offset, and the same bytes when L = 2 * offset
C9_Original ==
  last.kind \in {"short_copy", "medium_copy", "long_copy"}
  => LET rel == RelAppend(Old, last.offset, last.count)
         abs == AbsAppend(Old, last.offset, last.count)
     IN /\ last.len # 2 * last.offset => rel # abs
        /\ last.len = 2 * last.offset => rel = abs

\* C9 as it holds: the two families append the same bytes when
\* L = 2 * offset; when L # 2 * offset they start at different indices and
\* append different bytes provided count > 0, the output is not empty and
\* its bytes are non-zero and pairwise distinct
C9_RelativeVsAbsolute ==
  /\ last.kind = "short_copy" =>
       LET abs == AbsAppend(Old, last.offset, last.count)
       IN /\ last.len = 2 * last.offset => Appended = abs
          /\ last.len # 2 * last.offset => last.start # last.offset
          /\ last.len # 2 * last.offset /\ last.len > 0
             /\ DistinctNonZero(Old) => Appended # abs
  /\ last.kind \in {"medium_copy", "long_copy"} =>
       LET rel == RelAppend(Old, last.offset, last.count)
       IN /\ last.len = 2 * last.offset => Appended = rel
          /\ last.len # 2 * last.offset
             => last.start # Max(0, last.len - last.offset)
          /\ last.len # 2 * last.offset /\ last.len > 0 /\ last.count > 0
             /\ DistinctNonZero(Old) => Appended # rel

\* a short back-copy ran on an output of distinct non-zero bytes with
\* L # 2 * offset
C9_Witness ==
  /\ last.kind = "short_copy"
  /\ last.len >= 2
  /\ last.len # 2 * last.offset
  /\ last.offset >= 1
  /\ last.offset <= last.len
  /\ DistinctNonZero(Old)

====
